---- MODULE Spec2Model ----
(***************************************************************************)
(* Model of peekable-fwd-bwd (src/src/lib.rs): an iterator adapter with a  *)
(* bounded forward-peek buffer and a bounded backward-peek buffer.         *)
(*                                                                         *)
(* An Option<T> is a sequence of length at most one: None is <<>> and      *)
(* Some(v) is <<v>>.  A buffer (ArrayDeque) is the sequence of its         *)
(* elements, front first.                                                  *)
(***************************************************************************)
EXTENDS Integers, Sequences, FiniteSets, TLC

\* ---------------------------------------------------------------- bounds
MaxLen == 3        \* longest source script
MaxItem == 2       \* items are 1..MaxItem
MaxFwd == 2        \* largest FWD_SIZE
MaxBwd == 2        \* largest BWD_SIZE
MaxPulls == 5      \* most calls of the inner iterator's next() in one run

\* ---------------------------------------------------------------- Option
None == << >>
Some(v) == << v >>

Items == 1..MaxItem
OptItems == {None} \cup {Some(v) : v \in Items}

Min(a, b) == IF a < b THEN a ELSE b
Max(a, b) == IF a > b THEN a ELSE b

\* The depths the peek calls are made with on a buffer of capacity cap: every
\* depth within the capacity and the first depth past it.
PeekIdx(cap) == 0..cap

\* Every depth a peek call is made with.
AllIdx == 0..(Max(MaxFwd, MaxBwd) + 1)

SeqsUpTo(S, n) == UNION {[1..k -> S] : k \in 0..n}

VARIABLES
    src,        \* what the inner iterator I yields, call by call
    cyc,        \* TRUE: I repeats src (all items) for ever; FALSE: src, which
                \* ends with an item, and None for ever after it
    marked,     \* I implements the marker trait core::iter::FusedIterator
    FWD_SIZE,   \* const generic parameter
    BWD_SIZE,   \* const generic parameter
    iter,       \* Fuse<I>: [pos: calls made of I::next, done: I was dropped]
    bwd_buf,    \* ArrayDeque<I::Item, BWD_SIZE, Wrapping>
    fwd_buf,    \* ArrayDeque<I::Item, FWD_SIZE, Wrapping>
    last,       \* the most recent call: [op, i, res]
    returned,   \* the items next() has returned, oldest first
    nones,      \* how many next() calls returned None (counted up to 2)
    rep,        \* whether the call in last repeats the call before it
    pend        \* a forward peek and the results of the next() calls since

vars == << src, cyc, marked, FWD_SIZE, BWD_SIZE, iter, bwd_buf, fwd_buf, last,
           returned, nones, rep, pend >>

\* ------------------------------------------------------ the inner iterator
\* The result of the (p+1)-th call of I::next.
InnerAt(s, c, p) ==
    IF p < Len(s) THEN s[p + 1]
    ELSE IF c /\ Len(s) > 0 THEN s[(p % Len(s)) + 1]
    ELSE None

\* Fuse<I>::next, which is specialised on I.  For an I without the
\* FusedIterator marker: once I has returned None, the Fuse drops I and I is
\* not asked again.  For an I with the marker (mk): every call is forwarded
\* to I and the Fuse never drops it.
FuseNext(s, c, mk, it) ==
    IF it.done
    THEN [res |-> None, iter |-> it]
    ELSE LET r == InnerAt(s, c, it.pos)
         IN  [res |-> r,
              iter |-> [pos |-> it.pos + 1, done |-> (~mk /\ r = None)]]

\* ---------------------------------------------------- ArrayDeque, Wrapping
\* Mutant: the forward buffer is declared with the backward size.
fwd_capacity_Bwd(bwd, fwd) == bwd

\* Mutant: the backward buffer is declared with the forward size.
bwd_capacity_Fwd(bwd, fwd) == fwd

\* The capacities of the two buffers of Peekable<I, BWD_SIZE, FWD_SIZE>.
bwd_capacity(bwd, fwd) == bwd

fwd_capacity(bwd, fwd) == fwd

get(buf, i) == IF i < Len(buf) THEN Some(buf[i + 1]) ELSE None

\* Mutant: the element is taken from the back.
pop_front_Back(buf) ==
    IF Len(buf) = 0
    THEN [res |-> None, buf |-> buf]
    ELSE [res |-> Some(buf[Len(buf)]), buf |-> SubSeq(buf, 1, Len(buf) - 1)]

\* pop_front: [res: the front element if any, buf: the rest]
pop_front(buf) ==
    IF Len(buf) = 0
    THEN [res |-> None, buf |-> buf]
    ELSE [res |-> Some(Head(buf)), buf |-> Tail(buf)]

\* push_back on a full buffer first drops the front element.
push_back(buf, x, cap) ==
    IF Len(buf) >= cap
    THEN IF cap = 0 THEN buf ELSE Append(Tail(buf), x)
    ELSE Append(buf, x)

\* Mutant: the element is put at the back.
push_front_Back(buf, x, cap) ==
    IF Len(buf) >= cap
    THEN IF cap = 0 THEN buf ELSE Append(Tail(buf), x)
    ELSE Append(buf, x)

\* Mutant: a full buffer refuses the element (Saturating, not Wrapping).
push_front_Saturating(buf, x, cap) ==
    IF Len(buf) >= cap THEN buf ELSE << x >> \o buf

\* Mutant: a buffer of capacity 0 is not told from a full one that can drop.
push_front_NoZero(buf, x, cap) ==
    IF Len(buf) >= cap
    THEN << x >> \o SubSeq(buf, 1, Len(buf) - 1)
    ELSE << x >> \o buf

\* push_front on a full buffer first drops the back element.
push_front(buf, x, cap) ==
    IF Len(buf) >= cap
    THEN IF cap = 0 THEN buf ELSE << x >> \o SubSeq(buf, 1, Len(buf) - 1)
    ELSE << x >> \o buf

\* ------------------------------------------------------------ peek_fwd_nth
\* while self.fwd_buf.len() <= i { self.fwd_buf.push_back(self.iter.next()?) }
RECURSIVE FillFwd(_, _, _, _, _, _, _)
FillFwd(s, c, mk, cap, buf, it, i) ==
    IF Len(buf) <= i
    THEN LET n == FuseNext(s, c, mk, it)
         IN  IF n.res = None
             THEN [ok |-> FALSE, buf |-> buf, iter |-> n.iter]
             ELSE FillFwd(s, c, mk, cap, push_back(buf, n.res[1], cap), n.iter, i)
    ELSE [ok |-> TRUE, buf |-> buf, iter |-> it]

\* Mutant: one item is pulled before the length is looked at (do-while).
PeekFwdNth_PullFirst(s, c, mk, cap, buf, it, i) ==
    IF i < cap
    THEN LET n == FuseNext(s, c, mk, it)
         IN  IF n.res = None
             THEN [res |-> None, buf |-> buf, iter |-> n.iter]
             ELSE LET f == FillFwd(s, c, mk, cap, push_back(buf, n.res[1], cap),
                                   n.iter, i)
                  IN  [res  |-> IF f.ok THEN Some(f.buf[i + 1]) ELSE None,
                       buf  |-> f.buf,
                       iter |-> f.iter]
    ELSE [res |-> None, buf |-> buf, iter |-> it]

\* Mutant: the item peeked at is taken out of the buffer.
PeekFwdNth_Consume(s, c, mk, cap, buf, it, i) ==
    IF i < cap
    THEN LET f == FillFwd(s, c, mk, cap, buf, it, i)
         IN  [res  |-> IF f.ok THEN Some(f.buf[i + 1]) ELSE None,
              buf  |-> IF f.ok
                       THEN SubSeq(f.buf, 1, i) \o SubSeq(f.buf, i + 2, Len(f.buf))
                       ELSE f.buf,
              iter |-> f.iter]
    ELSE [res |-> None, buf |-> buf, iter |-> it]

\* Mutant: the items pulled by a peek that runs into the end are dropped.
PeekFwdNth_Rollback(s, c, mk, cap, buf, it, i) ==
    IF i < cap
    THEN LET f == FillFwd(s, c, mk, cap, buf, it, i)
         IN  [res  |-> IF f.ok THEN Some(f.buf[i + 1]) ELSE None,
              buf  |-> IF f.ok THEN f.buf ELSE buf,
              iter |-> f.iter]
    ELSE [res |-> None, buf |-> buf, iter |-> it]

\* Mutant: the buffer is filled to its capacity whatever the depth asked for.
PeekFwdNth_FillAll(s, c, mk, cap, buf, it, i) ==
    IF i < cap
    THEN LET f == FillFwd(s, c, mk, cap, buf, it, cap - 1)
         IN  [res |-> get(f.buf, i), buf |-> f.buf, iter |-> f.iter]
    ELSE [res |-> None, buf |-> buf, iter |-> it]

\* The whole method: [res, buf, iter].
PeekFwdNth(s, c, mk, cap, buf, it, i) ==
    IF i < cap
    THEN LET f == FillFwd(s, c, mk, cap, buf, it, i)
         IN  [res  |-> IF f.ok THEN Some(f.buf[i + 1]) ELSE None,
              buf  |-> f.buf,
              iter |-> f.iter]
    ELSE [res |-> None, buf |-> buf, iter |-> it]

\* -------------------------------------------------------------------- next
\* Mutant: the source is asked before the forward buffer.
NextItem_IterFirst(s, c, mk, buf, it) ==
    LET n == FuseNext(s, c, mk, it)
    IN  IF n.res # None
        THEN [res |-> n.res, buf |-> buf, iter |-> n.iter]
        ELSE LET p == pop_front(buf)
             IN  [res |-> p.res, buf |-> p.buf, iter |-> n.iter]

\* let item = self.fwd_buf.pop_front().or_else(|| self.iter.next());
NextItem(s, c, mk, buf, it) ==
    LET p == pop_front(buf)
    IN  IF p.res # None
        THEN [res |-> p.res, buf |-> p.buf, iter |-> it]
        ELSE LET n == FuseNext(s, c, mk, it)
             IN  [res |-> n.res, buf |-> p.buf, iter |-> n.iter]

\* Mutant: a next() that finds no item empties the history.
RecordItem_Clear(buf, item, cap) ==
    IF item # None THEN push_front(buf, item[1], cap) ELSE << >>

\* if let Some(item) = &item { self.bwd_buf.push_front(item.clone()); }
RecordItem(buf, item, cap) ==
    IF item # None THEN push_front(buf, item[1], cap) ELSE buf

\* ------------------------------------------------------------------- state
NoCall == [op |-> "new", i |-> 0, res |-> None]

NoPend == [on |-> FALSE, i |-> 0, v |-> 0, got |-> << >>]

Init ==
    /\ src \in SeqsUpTo(OptItems, MaxLen)
    /\ cyc \in BOOLEAN
    /\ cyc => (Len(src) > 0 /\ \A j \in 1..Len(src) : src[j] # None)
    /\ (~cyc /\ Len(src) > 0) => src[Len(src)] # None
    /\ marked \in BOOLEAN
    /\ FWD_SIZE \in 0..MaxFwd
    /\ BWD_SIZE \in 0..MaxBwd
    /\ iter = [pos |-> 0, done |-> FALSE]
    /\ bwd_buf = << >>
    /\ fwd_buf = << >>
    /\ last = NoCall
    /\ returned = << >>
    /\ nones = 0
    /\ rep = "no"
    /\ pend = NoPend

Params == << src, cyc, marked, FWD_SIZE, BWD_SIZE >>

\* --------------------------------------------------------------- observers
\* The observers record the calls made and their results; they are written
\* by every call and read by none.

\* rep: the call c repeats the call in last (same method, same depth), with
\* the same result or a different one.
Repeats(c) ==
    IF c.op = last.op /\ c.i = last.i
    THEN IF c.res = last.res THEN "same" ELSE "differs"
    ELSE "no"

\* pend: the latest forward peek that returned an item, and the results of
\* the next() calls made since, up to i+1 of them; any other peek ends it.
Pending(c) ==
    IF c.op = "peek_fwd_nth" /\ c.res # None
    THEN [on |-> TRUE, i |-> c.i, v |-> c.res[1], got |-> << >>]
    ELSE IF c.op = "next" /\ pend.on /\ Len(pend.got) < pend.i + 1
    THEN [pend EXCEPT !.got = Append(@, c.res)]
    ELSE NoPend

\* The call c has been made.
Observe(c) ==
    /\ last' = c
    /\ rep' = Repeats(c)
    /\ pend' = Pending(c)

\* ----------------------------------------------------------------- actions
\* Mutant: the history is read by taking its front element out.
peek_bwd_nth_Pop(i) ==
    /\ Observe([op |-> "peek_bwd_nth", i |-> i, res |-> get(bwd_buf, i)])
    /\ bwd_buf' = pop_front(bwd_buf).buf
    /\ UNCHANGED << Params, iter, fwd_buf, returned, nones >>

peek_bwd_nth(i) ==
    /\ Observe([op |-> "peek_bwd_nth", i |-> i, res |-> get(bwd_buf, i)])
    /\ UNCHANGED << Params, iter, bwd_buf, fwd_buf, returned, nones >>

peek_bwd == peek_bwd_nth(0)

peek_fwd_nth(i) ==
    LET r == PeekFwdNth(src, cyc, marked, fwd_capacity(BWD_SIZE, FWD_SIZE),
                        fwd_buf, iter, i)
    IN  /\ r.iter.pos <= MaxPulls
        /\ fwd_buf' = r.buf
        /\ iter' = r.iter
        /\ Observe([op |-> "peek_fwd_nth", i |-> i, res |-> r.res])
        /\ UNCHANGED << Params, bwd_buf, returned, nones >>

peek_fwd == peek_fwd_nth(0)

peek == peek_fwd

peek_nth(i) == peek_fwd_nth(i)

next ==
    LET r == NextItem(src, cyc, marked, fwd_buf, iter)
    IN  /\ r.iter.pos <= MaxPulls
        /\ fwd_buf' = r.buf
        /\ iter' = r.iter
        /\ bwd_buf' = RecordItem(bwd_buf, r.res,
                                 bwd_capacity(BWD_SIZE, FWD_SIZE))
        /\ returned' = IF r.res # None
                       THEN Append(returned, r.res[1])
                       ELSE returned
        /\ nones' = IF r.res = None THEN Min(nones + 1, 2) ELSE nones
        /\ Observe([op |-> "next", i |-> 0, res |-> r.res])
        /\ UNCHANGED Params

Next ==
    \/ next
    \/ \E i \in PeekIdx(FWD_SIZE) : peek_fwd_nth(i)
    \/ \E i \in PeekIdx(FWD_SIZE) : peek_nth(i)
    \/ peek_fwd
    \/ peek
    \/ \E i \in PeekIdx(BWD_SIZE) : peek_bwd_nth(i)
    \/ peek_bwd

Spec == Init /\ [][Next]_vars

\* ------------------------------------------------------------ properties
\* The bare fused source: the (p+1)-th result of I, or None from the first
\* None of I on.
FusedAt(p) ==
    IF \E j \in 0..p : InnerAt(src, cyc, j) = None
    THEN None
    ELSE InnerAt(src, cyc, p)

\* A pull has observed None: some call made of I::next returned None.
SawEnd == \E j \in 0..(iter.pos - 1) : InnerAt(src, cyc, j) = None

\* The items I has handed out in its first n calls, in order.
RECURSIVE ItemStream(_)
ItemStream(n) ==
    IF n = 0 THEN << >>
    ELSE LET r == InnerAt(src, cyc, n - 1)
         IN  IF r = None THEN ItemStream(n - 1)
             ELSE Append(ItemStream(n - 1), r[1])

\* I never yields None.
Infinite == cyc /\ \A j \in 1..Len(src) : src[j] # None

\* C1: the k-th item returned by next() is the k-th element of
\* the fused source, and next() returns None only when the fused source has
\* no element left, whatever peeks were made and whatever I is.
C1_NextEqualsSource ==
    /\ \A k \in 1..Len(returned) : Some(returned[k]) = FusedAt(k - 1)
    /\ (last.op = "next" /\ last.res # None)
           => last.res = FusedAt(Len(returned) - 1)
    /\ (last.op = "next" /\ last.res = None)
           => FusedAt(Len(returned)) = None

\* A next() has returned an item past the end of the fused source.
C1_Witness ==
    /\ marked
    /\ last.op = "next"
    /\ last.res # None
    /\ FusedAt(Len(returned) - 1) = None

\* C2: when peek_fwd_nth(i) returned v, the next i+1 calls of next(), made
\* with no peek in between, all return an item and the last returns v.
C2_FwdNextConsistency ==
    pend.on =>
        /\ \A k \in 1..Len(pend.got) : pend.got[k] # None
        /\ Len(pend.got) = pend.i + 1 => pend.got[pend.i + 1] = Some(pend.v)

C2_Witness ==
    /\ pend.on
    /\ pend.i >= 1
    /\ Len(pend.got) = pend.i + 1
    /\ pend.got[1] # pend.got[pend.i + 1]

\* C3: after c items were returned, peek_fwd_nth(i) returns
\* element c+i of the fused source if i < FWD_SIZE and that element exists,
\* and None otherwise, whatever peeks were made before and whatever I is.
C3_PeekFwdValue ==
    last.op = "peek_fwd_nth" =>
        last.res = IF last.i < FWD_SIZE
                   THEN FusedAt(Len(returned) + last.i)
                   ELSE None

\* A forward peek within the capacity has returned an item from a position
\* past the end of the fused source.
C3_Witness ==
    /\ marked
    /\ last.op = "peek_fwd_nth"
    /\ last.i < FWD_SIZE
    /\ last.res # None
    /\ FusedAt(Len(returned) + last.i) = None

\* The result peek_bwd_nth(k) has to give after the items in returned.
HistAt(k) ==
    IF k < Min(Len(returned), BWD_SIZE)
    THEN Some(returned[Len(returned) - k])
    ELSE None

\* C4: after next() returned x_1..x_n, peek_bwd_nth(k) returns x_(n-k) for
\* k < min(n, BWD_SIZE) and None for every other k.
C4_HistoryOrdering ==
    /\ \A k \in AllIdx : get(bwd_buf, k) = HistAt(k)
    /\ last.op = "peek_bwd_nth" => last.res = HistAt(last.i)

C4_Witness ==
    /\ last.op = "peek_bwd_nth"
    /\ last.i >= 1
    /\ last.res # None
    /\ get(bwd_buf, 0) # last.res
    /\ Len(fwd_buf) > 0

\* The items the source has handed out up to a state: the calls made of
\* I::next that returned an item.
PulledItems(it) ==
    Cardinality({j \in 0..(it.pos - 1) : InnerAt(src, cyc, j) # None})

\* The items a step obtains from the source.
ItemsPulled == PulledItems(iter') - PulledItems(iter)

\* C5: a peek_fwd_nth(i) made right after a peek_fwd_nth(i) returns
\* the same result, changes neither buffer and obtains no item from the
\* source, whatever I is.
C5_PeekFwdIdempotent ==
    /\ [](last.op = "peek_fwd_nth" => rep # "differs")
    /\ [][(last.op = "peek_fwd_nth" /\ last'.op = "peek_fwd_nth"
              /\ last'.i = last.i)
             => /\ last'.res = last.res
                /\ ItemsPulled = 0
                /\ UNCHANGED << fwd_buf, bwd_buf >>]_vars

\* A forward peek repeated at once has returned another result.
C5_Witness ==
    /\ marked
    /\ last.op = "peek_fwd_nth"
    /\ rep = "differs"

\* C6: a peek_bwd_nth(i) made right after a peek_bwd_nth(i) returns the same
\* result, and no forward peek changes what peek_bwd_nth returns at any
\* depth, which is what every peek_bwd_nth call does return.
C6_PeekBwdIdempotent ==
    /\ [](last.op = "peek_bwd_nth"
            => /\ rep # "differs"
               /\ last.res = get(bwd_buf, last.i))
    /\ [][last'.op = "peek_fwd_nth"
             => \A k \in AllIdx : get(bwd_buf', k) = get(bwd_buf, k)]_vars

C6_Witness ==
    /\ last.op = "peek_bwd_nth"
    /\ rep = "same"
    /\ last.i >= 1
    /\ last.res # None
    /\ get(bwd_buf, 0) # last.res
    /\ Len(fwd_buf) > 0

\* C7: peek_fwd_nth(i) with i >= FWD_SIZE returns None, pulls nothing from
\* the source and leaves both buffers as they are.
C7_FwdCapacityCeiling ==
    [][(last'.op = "peek_fwd_nth" /\ last'.i >= FWD_SIZE)
          => /\ last'.res = None
             /\ UNCHANGED << iter, fwd_buf, bwd_buf >>]_vars

C7_Witness ==
    /\ last.op = "peek_fwd_nth"
    /\ last.i = FWD_SIZE
    /\ last.res = None
    /\ Infinite
    /\ FWD_SIZE >= 1
    /\ iter.pos < FWD_SIZE

\* C8: after BWD_SIZE+1 or more items were returned, peek_bwd_nth(BWD_SIZE)
\* returns None and peek_bwd_nth(BWD_SIZE-1) the BWD_SIZE-th most recent
\* item; a push into the full history drops the oldest entry only.
C8_BwdCapacityCeiling ==
    /\ [](Len(returned) >= BWD_SIZE + 1
            => /\ get(bwd_buf, BWD_SIZE) = None
               /\ (last.op = "peek_bwd_nth" /\ last.i = BWD_SIZE)
                      => last.res = None
               /\ BWD_SIZE >= 1
                      => get(bwd_buf, BWD_SIZE - 1)
                             = Some(returned[Len(returned) - BWD_SIZE + 1])
               /\ (BWD_SIZE >= 1 /\ last.op = "peek_bwd_nth"
                                 /\ last.i = BWD_SIZE - 1)
                      => last.res
                             = Some(returned[Len(returned) - BWD_SIZE + 1]))
    /\ [][(last'.op = "next" /\ last'.res # None /\ BWD_SIZE >= 1
              /\ Len(bwd_buf) = BWD_SIZE)
             => bwd_buf' = << last'.res[1] >>
                               \o SubSeq(bwd_buf, 1, BWD_SIZE - 1)]_vars

C8_Witness ==
    /\ BWD_SIZE >= 2
    /\ Len(returned) >= BWD_SIZE + 1
    /\ last.op = "peek_bwd_nth"
    /\ last.i = BWD_SIZE - 1
    /\ last.res # None
    /\ last.res # Some(returned[Len(returned) - BWD_SIZE])

\* C9: once next() has returned None, every later next() returns
\* None, whatever peeks are made and whatever I would yield.
C9_ExhaustionStability ==
    [][(nones >= 1 /\ last'.op = "next") => last'.res = None]_vars

\* A next() has returned an item after a next() returned None.
C9_Witness ==
    /\ marked
    /\ nones >= 1
    /\ last.op = "next"
    /\ last.res # None

\* C10: once a pull has observed None, every later next() and
\* every later forward peek returns None.
C10_ExhaustedTerminal ==
    [][(SawEnd /\ last'.op \in {"next", "peek_fwd_nth"})
          => last'.res = None]_vars

\* A next() has returned the item of the latest pull, made after a pull
\* that returned None, and nothing is buffered.
C10_Witness ==
    /\ marked
    /\ last.op = "next"
    /\ last.res # None
    /\ fwd_buf = << >>
    /\ InnerAt(src, cyc, iter.pos - 1) = last.res
    /\ \E j \in 0..(iter.pos - 2) : InnerAt(src, cyc, j) = None

\* C11: a next() that returns None leaves the history as it is, and once
\* next() has returned None every peek_bwd_nth(k) returns what it returned
\* after the last item was returned.
C11_HistoryPersists ==
    /\ [](nones >= 1
            => /\ \A k \in AllIdx : get(bwd_buf, k) = HistAt(k)
               /\ last.op = "peek_bwd_nth" => last.res = HistAt(last.i))
    /\ [][(last'.op = "next" /\ last'.res = None)
             => (bwd_buf' = bwd_buf /\ returned' = returned)]_vars

C11_Witness ==
    /\ nones = 2
    /\ last.op = "peek_bwd_nth"
    /\ last.i >= 1
    /\ last.res # None
    /\ last.res # get(bwd_buf, 0)

\* C12: with FWD_SIZE = 0 a forward peek returns None and pulls nothing;
\* with BWD_SIZE = 0 a backward peek returns None in every state; in both
\* cases the buffer of capacity 0 never holds an item and next() returns the
\* items the source hands out, all of them and in order.
C12_ZeroCapacities ==
    /\ [](FWD_SIZE = 0
            => /\ fwd_buf = << >>
               /\ last.op = "peek_fwd_nth" => last.res = None)
    /\ [](BWD_SIZE = 0
            => /\ bwd_buf = << >>
               /\ \A k \in AllIdx : get(bwd_buf, k) = None
               /\ last.op = "peek_bwd_nth" => last.res = None)
    /\ []((FWD_SIZE = 0 \/ BWD_SIZE = 0)
            => /\ returned \o fwd_buf = ItemStream(iter.pos)
               /\ (last.op = "next" /\ last.res = None)
                      => (SawEnd /\ returned = ItemStream(iter.pos))
               /\ (last.op = "next" /\ last.res # None)
                      => last.res = Some(returned[Len(returned)]))
    /\ [][(FWD_SIZE = 0 /\ last'.op = "peek_fwd_nth")
             => UNCHANGED << iter, fwd_buf, bwd_buf >>]_vars

C12_Witness ==
    /\ FWD_SIZE = 0
    /\ BWD_SIZE = 0
    /\ Len(returned) >= 2
    /\ returned[1] # returned[2]
    /\ InnerAt(src, cyc, iter.pos) # None
    /\ last.op = "peek_fwd_nth"
    /\ last.i = 0

\* C13: the forward buffer never holds more than FWD_SIZE items and the
\* backward buffer never more than BWD_SIZE.
C13_BufferBounds ==
    /\ Len(fwd_buf) <= FWD_SIZE
    /\ Len(bwd_buf) <= BWD_SIZE

C13_Witness ==
    /\ FWD_SIZE = 2
    /\ BWD_SIZE = 1
    /\ Len(fwd_buf) = FWD_SIZE
    /\ Len(bwd_buf) = BWD_SIZE
    /\ Len(returned) >= 2
    /\ Infinite

\* C14: a forward peek makes the forward buffer longer by exactly the items
\* it pulls, keeps the items that were in it at the front in their order and
\* stays within FWD_SIZE: no push_back meets a full buffer.
C14_FwdNeverOverwrites ==
    [][last'.op = "peek_fwd_nth"
          => /\ Len(fwd_buf') = Len(fwd_buf) + ItemsPulled
             /\ Len(fwd_buf') <= FWD_SIZE
             /\ SubSeq(fwd_buf', 1, Len(fwd_buf)) = fwd_buf]_vars

C14_Witness ==
    /\ last.op = "peek_fwd_nth"
    /\ FWD_SIZE >= 2
    /\ last.i = FWD_SIZE - 1
    /\ last.res # None
    /\ Len(fwd_buf) = FWD_SIZE
    /\ Len(returned) >= 1
    /\ fwd_buf[1] # fwd_buf[2]

\* The items peek_fwd_nth(i) has to pull with the forward buffer as it is.
Needed(i) == Max(0, i + 1 - Len(fwd_buf))

\* How many items, n at most, the source hands out before its next None.
LeftOf(n) ==
    IF iter.done THEN 0
    ELSE Cardinality({j \in 0..(n - 1) :
             \A k \in 0..j : InnerAt(src, cyc, iter.pos + k) # None})

\* C15: peek_fwd_nth(i) with i < FWD_SIZE pulls exactly the max(0, i+1-L)
\* items it lacks if the source has them, and the buffer is then max(L, i+1)
\* long; otherwise it pulls what the source has left before it returns
\* None; never more than FWD_SIZE items in one call.
C15_MinimalPulling ==
    [][(last'.op = "peek_fwd_nth" /\ last'.i < FWD_SIZE)
          => /\ ItemsPulled = LeftOf(Needed(last'.i))
             /\ LeftOf(Needed(last'.i)) = Needed(last'.i)
                    => Len(fwd_buf') = Max(Len(fwd_buf), last'.i + 1)
             /\ ItemsPulled <= FWD_SIZE]_vars

C15_Witness ==
    /\ last.op = "peek_fwd_nth"
    /\ last.res # None
    /\ Len(fwd_buf) = last.i + 1
    /\ Len(fwd_buf) < FWD_SIZE
    /\ Len(returned) >= 1
    /\ Infinite

\* C16: next() with a non-empty forward buffer returns its front item, takes
\* it out and pulls nothing; with an empty forward buffer it makes one pull
\* and returns its result.
C16_NextDrainsFirst ==
    [][last'.op = "next"
          => IF Len(fwd_buf) > 0
             THEN /\ last'.res = Some(Head(fwd_buf))
                  /\ fwd_buf' = Tail(fwd_buf)
                  /\ iter' = iter
             ELSE /\ fwd_buf' = << >>
                  /\ last'.res = FuseNext(src, cyc, marked, iter).res
                  /\ iter' = FuseNext(src, cyc, marked, iter).iter
                  /\ iter'.pos - iter.pos <= 1]_vars

C16_Witness ==
    /\ last.op = "next"
    /\ last.res # None
    /\ Len(fwd_buf) >= 1
    /\ Some(fwd_buf[1]) # last.res
    /\ ~iter.done

\* The items the adapter holds: in the forward buffer or in the history.
Held(x) ==
    \/ \E k \in 1..Len(fwd_buf) : fwd_buf[k] = x
    \/ \E k \in 1..Len(bwd_buf) : bwd_buf[k] = x

\* C17: once a pull has returned None, every later pull returns
\* None, the source hands out nothing more, and a call returns only items
\* the adapter held already: nothing I yields after its first None is ever
\* seen, whatever I is.
C17_FusedSource ==
    /\ [](SawEnd
            => /\ FuseNext(src, cyc, marked, iter).res = None
               /\ \A k \in 1..(Len(returned) + Len(fwd_buf)) :
                      FusedAt(k - 1) = Some((returned \o fwd_buf)[k]))
    /\ [][SawEnd
             => /\ ItemsPulled = 0
                /\ Len(returned') + Len(fwd_buf') = Len(returned) + Len(fwd_buf)
                /\ last'.res # None => Held(last'.res[1])]_vars

\* The item at the front of the history and an item in the forward buffer
\* were both yielded by I after its first None.
C17_Witness ==
    /\ marked
    /\ Len(returned) >= 1
    /\ FusedAt(Len(returned) - 1) = None
    /\ Len(bwd_buf) >= 1
    /\ Len(fwd_buf) >= 1

\* C18: a backward peek, peek_bwd_nth(i) or peek_bwd(), changes neither the
\* source position, nor the exhaustion status, nor either buffer.
C18_PeekBwdReadOnly ==
    [][last'.op = "peek_bwd_nth"
          => UNCHANGED << iter, fwd_buf, bwd_buf, returned, nones >>]_vars

C18_Witness ==
    /\ last.op = "peek_bwd_nth"
    /\ last.i = 0
    /\ last.res # None
    /\ Len(bwd_buf) >= 2
    /\ Len(fwd_buf) >= 1
    /\ ~iter.done

\* C19: a peek keeps the items of the forward buffer, in their order, at its
\* front and leaves the history as it is; the history changes only in a
\* next() that returns an item, and that item is then at its index 0.
C19_OnlyNextConsumes ==
    [][/\ last'.op \in {"peek_fwd_nth", "peek_bwd_nth"}
          => /\ Len(fwd_buf') >= Len(fwd_buf)
             /\ SubSeq(fwd_buf', 1, Len(fwd_buf)) = fwd_buf
             /\ bwd_buf' = bwd_buf
       /\ bwd_buf' # bwd_buf
          => /\ last'.op = "next"
             /\ last'.res # None
             /\ get(bwd_buf', 0) = last'.res
       /\ (last'.op = "next" /\ last'.res # None /\ BWD_SIZE >= 1)
          => /\ get(bwd_buf', 0) = last'.res
             /\ \A k \in 1..(Len(bwd_buf') - 1) : bwd_buf'[k + 1] = bwd_buf[k]
       /\ Len(fwd_buf') < Len(fwd_buf) => last'.op = "next"]_vars

C19_Witness ==
    /\ last.op = "peek_fwd_nth"
    /\ last.res # None
    /\ last.i = 0
    /\ Len(fwd_buf) >= 2
    /\ Len(bwd_buf) >= 1
    /\ Len(returned) >= 1

\* C20: the items returned by next(), in order, followed by the forward
\* buffer from front to back, are the items pulled from the source so far,
\* in order.
C20_Conservation ==
    /\ Len(returned) + Len(fwd_buf) = PulledItems(iter)
    /\ returned \o fwd_buf = ItemStream(iter.pos)

\* No next() has returned None, so it is a forward peek that ran into the
\* end of the source; the item it had pulled is then returned by next().
C20_Witness ==
    /\ SawEnd
    /\ nones = 0
    /\ last.op = "next"
    /\ last.res # None
    /\ Len(returned) >= 2
    /\ returned[Len(returned) - 1] # returned[Len(returned)]
    /\ PulledItems(iter) = Len(returned)
====
